---- MODULE Spec2Model ----
\* Model of the az-core archive/remove engine (Archive in
\* cmd/lhsm-plugin-az-core/archive.go, Remove in the remove source file).
\* Strings are sequences of one-character strings so that splitting,
\* path joining and URL parsing are computed as the Go code computes them.
EXTENDS Integers, Sequences, FiniteSets, TLC

\* ---------------------------------------------------------------- bounds
MaxLen == 5

\* ---------------------------------------------------------------- inputs
NameChars == {"a", "/", "#"}
Slash == "/"
ContainerName == <<"c">>
MountRoot == <<"/", "m">>
ExportPrefixes == {<<>>, <<"e">>}
\* os.FileMode: the ModeDir bit (1<<31) and the permission bits
DirStats == {[mode |-> [dir |-> TRUE, perm |-> 493], uid |-> 1000, gid |-> 100, mtime |-> 61, size |-> 0],
             [mode |-> [dir |-> TRUE, perm |-> 448], uid |-> 0, gid |-> 5, mtime |-> 3600, size |-> 0]}
FileStats == {[mode |-> [dir |-> FALSE, perm |-> 420], uid |-> 1000, gid |-> 100, mtime |-> 61, size |-> 5],
              [mode |-> [dir |-> FALSE, perm |-> 384], uid |-> 7, gid |-> 8, mtime |-> 0, size |-> 0]}
AllNames == UNION {[1..n -> NameChars] : n \in 0..MaxLen}

\* ---------------------------------------------------------------- strings
RECURSIVE SplitAcc(_, _, _)
SplitAcc(s, cur, acc) ==
  IF s = <<>> THEN Append(acc, cur)
  ELSE IF Head(s) = Slash THEN SplitAcc(Tail(s), <<>>, Append(acc, cur))
  ELSE SplitAcc(Tail(s), Append(cur, Head(s)), acc)

\* strings.Split(s, "/")
Split(s) == SplitAcc(s, <<>>, <<>>)

RECURSIVE JoinSegs(_)
\* strings.Join(segs, "/")
JoinSegs(segs) ==
  IF segs = <<>> THEN <<>>
  ELSE IF Len(segs) = 1 THEN segs[1]
  ELSE segs[1] \o <<Slash>> \o JoinSegs(Tail(segs))

RECURSIVE CleanSegs(_, _, _)
\* the segment loop of path.Clean: drop empty and ".", ".." pops
CleanSegs(segs, out, rooted) ==
  IF segs = <<>> THEN out
  ELSE LET s == Head(segs) IN
    IF s = <<>> \/ s = <<".">> THEN CleanSegs(Tail(segs), out, rooted)
    ELSE IF s = <<".", ".">> THEN
      IF out # <<>> /\ out[Len(out)] # <<".", ".">>
        THEN CleanSegs(Tail(segs), SubSeq(out, 1, Len(out) - 1), rooted)
      ELSE IF rooted THEN CleanSegs(Tail(segs), out, rooted)
      ELSE CleanSegs(Tail(segs), Append(out, s), rooted)
    ELSE CleanSegs(Tail(segs), Append(out, s), rooted)

\* path.Clean
Clean(p) ==
  LET rooted == p # <<>> /\ p[1] = Slash
      body == JoinSegs(CleanSegs(Split(p), <<>>, rooted))
  IN IF rooted THEN <<Slash>> \o body
     ELSE IF body = <<>> THEN <<".">> ELSE body

\* path.Join(a, b)
Join2(a, b) ==
  IF a = <<>> /\ b = <<>> THEN <<>>
  ELSE IF a = <<>> THEN Clean(b)
  ELSE IF b = <<>> THEN Clean(a)
  ELSE Clean(a \o <<Slash>> \o b)

\* path.Join(a, b, c)
Join3(a, b, c) ==
  LET parts == SelectSeq(<<a, b, c>>, LAMBDA x : x # <<>>)
  IN IF parts = <<>> THEN <<>> ELSE Clean(JoinSegs(parts))

RECURSIVE BeforeHash(_)
\* url.Parse: the part of a raw URL before its fragment
BeforeHash(s) ==
  IF s = <<>> \/ Head(s) = "#" THEN <<>> ELSE <<Head(s)>> \o BeforeHash(Tail(s))

HasHash(s) == \E j \in 1..Len(s) : s[j] = "#"

\* ContainerURL.NewBlockBlobURL: appendToURLPath(u, name)
AppendToURLPath(p, n) ==
  IF p = <<>> \/ p[Len(p)] # Slash THEN p \o <<Slash>> \o n ELSE p \o n

\* ---------------------------------------------------------------- formatting
RECURSIVE Digits(_, _)
Digits(n, b) == IF n < b THEN <<n>> ELSE Append(Digits(n \div b, b), n % b)

\* fmt.Sprintf("%o", mode) and fmt.Sprintf("%d", id)
Octal(n) == Digits(n, 8)
\* %o of a FileMode: 1<<31 is octal 2 followed by ten digits
ModeOctal(m) ==
  IF m.dir THEN <<2>> \o [j \in 1..10 |-> (m.perm \div (8^(10 - j))) % 8]
  ELSE Octal(m.perm)
Decimal(n) == Digits(n, 10)
\* Time.Format("2006-01-02 15:04:05 -0700") of a UTC time given in seconds of day 1970-01-01
FormatTime(t) == <<1970, 1, 1, t \div 3600, (t % 3600) \div 60, t % 60, 0>>

\* ---------------------------------------------------------------- metadata
DirMeta(hnsOn, s) ==
  IF hnsOn THEN [k \in {"hdi_isfolder"} |-> <<"true">>]
  ELSE [k \in {"hdi_isfolder", "Permissions", "ModTime", "Owner", "Group"} |->
          CASE k = "hdi_isfolder" -> <<"true">>
            [] k = "Permissions" -> ModeOctal(s.mode)
            [] k = "ModTime" -> FormatTime(s.mtime)
            [] k = "Owner" -> Decimal(s.uid)
            [] k = "Group" -> Decimal(s.gid)]

FileMetaSwapped(s) ==
  [k \in {"Permissions", "ModTime", "Owner", "Group"} |->
     CASE k = "Permissions" -> ModeOctal(s.mode)
       [] k = "ModTime" -> FormatTime(s.mtime)
       [] k = "Owner" -> Decimal(s.gid)
       [] k = "Group" -> Decimal(s.uid)]

FileMeta(s) ==
  [k \in {"Permissions", "ModTime", "Owner", "Group"} |->
     CASE k = "Permissions" -> ModeOctal(s.mode)
       [] k = "ModTime" -> FormatTime(s.mtime)
       [] k = "Owner" -> Decimal(s.uid)
       [] k = "Group" -> Decimal(s.gid)]

\* ---------------------------------------------------------------- addresses
ContainerPath == <<Slash>> \o ContainerName
ContentKey(n) == AppendToURLPath(ContainerPath, n)
RemoveBlobPath(e, n) == Join3(ContainerName, e, n)
RemoveKey(e, n) == <<Slash>> \o BeforeHash(RemoveBlobPath(e, n))
RemoveLosesSAS(e, n) == HasHash(RemoveBlobPath(e, n))

\* err != nil || ok && stgErr.ServiceCode() == ServiceCodeBlobNotFound
DirAclAborts(res) == res # "ok" \/ res = "notfound"

\* ---------------------------------------------------------------- state
VARIABLES name, prefix, hns, pc, parents, i, uPath, dirPath, st, total,
          store, dirUploads, contentIssued, ret, errLog, deletes, rmErr,
          storePre

vars == <<name, prefix, hns, pc, parents, i, uPath, dirPath, st, total,
          store, dirUploads, contentIssued, ret, errLog, deletes, rmErr,
          storePre>>

NoObjects == [k \in {} |-> 0]
PriorStores == {NoObjects,
                [k \in {<<Slash, "c", Slash, "a">>} |->
                   [kind |-> "placeholder", meta |-> [x \in {"hdi_isfolder"} |-> <<"true">>], prior |-> TRUE, from |-> [mode |-> [dir |-> TRUE, perm |-> 0], uid |-> 0, gid |-> 0, mtime |-> 0, size |-> 0]]]}

Put(s, k, r) == [x \in DOMAIN s \cup {k} |-> IF x = k THEN r ELSE s[x]]
Del(s, k) == [x \in DOMAIN s \ {k} |-> s[x]]

Init ==
  /\ name \in AllNames
  /\ prefix \in ExportPrefixes
  /\ hns \in BOOLEAN
  /\ pc = "dir_open"
  /\ parents = SubSeq(Split(name), 1, Len(Split(name)) - 1)
  /\ i = 1
  /\ uPath = ContainerPath
  /\ dirPath = MountRoot
  /\ st = "none"
  /\ total = 0
  /\ store \in PriorStores
  /\ dirUploads = <<>>
  /\ contentIssued = FALSE
  /\ ret = [n |-> 0, err |-> "none"]
  /\ errLog = <<>>
  /\ deletes = <<>>
  /\ rmErr = "none"
  /\ storePre = NoObjects

Fail(kind) ==
  /\ pc' = "archived"
  /\ ret' = [n |-> 0, err |-> kind]
  /\ errLog' = Append(errLog, kind)

DirOpenNoAccumulate ==
  /\ pc = "dir_open" /\ i <= Len(parents)
  /\ uPath' = Join2(ContainerPath, parents[i])
  /\ dirPath' = Join2(dirPath, parents[i])
  /\ \/ /\ pc' = "dir_stat" /\ UNCHANGED <<ret, errLog>>
     \/ Fail("open")
  /\ UNCHANGED <<name, prefix, hns, parents, i, st, total, store, dirUploads,
                 contentIssued, deletes, rmErr, storePre>>

\* loop head of `for _, currDir := range parents`: u.Path, dirPath, os.Open
DirOpen ==
  /\ pc = "dir_open" /\ i <= Len(parents)
  /\ uPath' = Join2(uPath, parents[i])
  /\ dirPath' = Join2(dirPath, parents[i])
  /\ \/ /\ pc' = "dir_stat" /\ UNCHANGED <<ret, errLog>>
     \/ Fail("open")
  /\ UNCHANGED <<name, prefix, hns, parents, i, st, total, store, dirUploads,
                 contentIssued, deletes, rmErr, storePre>>

DirStatStep ==
  /\ pc = "dir_stat"
  /\ \/ \E s \in DirStats :
          /\ st' = s
          /\ pc' = IF hns THEN "dir_getacl" ELSE "dir_upload"
          /\ UNCHANGED <<ret, errLog>>
     \/ Fail("stat") /\ UNCHANGED st
  /\ UNCHANGED <<name, prefix, hns, parents, i, uPath, dirPath, total, store,
                 dirUploads, contentIssued, deletes, rmErr, storePre>>

DirGetAcl ==
  /\ pc = "dir_getacl"
  /\ \E res \in {"ok", "notfound", "other"} :
       IF DirAclAborts(res)
         THEN Fail(IF res = "notfound" THEN "dir_acl_notfound" ELSE "dir_acl_other")
         ELSE pc' = "dir_upload" /\ UNCHANGED <<ret, errLog>>
  /\ UNCHANGED <<name, prefix, hns, parents, i, uPath, dirPath, st, total, store,
                 dirUploads, contentIssued, deletes, rmErr, storePre>>

DirUpload ==
  /\ pc = "dir_upload"
  /\ dirUploads' = Append(dirUploads, uPath)
  /\ \/ /\ store' = Put(store, uPath, [kind |-> "placeholder", meta |-> DirMeta(hns, st), prior |-> FALSE, from |-> st])
        /\ IF hns THEN pc' = "dir_setacl" /\ UNCHANGED i
                  ELSE pc' = "dir_open" /\ i' = i + 1
        /\ UNCHANGED <<ret, errLog>>
     \/ Fail("dir_upload") /\ UNCHANGED <<store, i>>
  /\ UNCHANGED <<name, prefix, hns, parents, uPath, dirPath, st, total,
                 contentIssued, deletes, rmErr, storePre>>

DirSetAclSwallow ==
  /\ pc = "dir_setacl"
  /\ pc' = "dir_open" /\ i' = i + 1
  /\ \/ UNCHANGED errLog
     \/ errLog' = Append(errLog, "dir_setacl")
  /\ UNCHANGED <<name, prefix, hns, parents, uPath, dirPath, st, total, store,
                 dirUploads, contentIssued, ret, deletes, rmErr, storePre>>

DirSetAcl ==
  /\ pc = "dir_setacl"
  /\ \/ pc' = "dir_open" /\ i' = i + 1 /\ UNCHANGED <<ret, errLog>>
     \/ Fail("dir_setacl") /\ UNCHANGED i
  /\ UNCHANGED <<name, prefix, hns, parents, uPath, dirPath, st, total, store,
                 dirUploads, contentIssued, deletes, rmErr, storePre>>

\* os.Open / file.Stat with ignored errors, then fileInfo.Size()
FileOpen ==
  /\ pc = "dir_open" /\ i > Len(parents)
  /\ \/ \E s \in FileStats :
          /\ st' = s
          /\ total' = s.size
          /\ pc' = IF hns THEN "file_getacl" ELSE "file_upload"
     \/ /\ pc' = "panicked"   \* nil *os.File or nil FileInfo dereferenced
        /\ UNCHANGED <<st, total>>
  /\ UNCHANGED <<name, prefix, hns, parents, i, uPath, dirPath, store, dirUploads,
                 contentIssued, ret, errLog, deletes, rmErr, storePre>>

FileGetAcl ==
  /\ pc = "file_getacl"
  /\ \E res \in {"ok", "notfound", "other"} :
       IF res # "ok"
         THEN Fail(IF res = "notfound" THEN "file_acl_notfound" ELSE "file_acl_other")
         ELSE pc' = "file_upload" /\ UNCHANGED <<ret, errLog>>
  /\ UNCHANGED <<name, prefix, hns, parents, i, uPath, dirPath, st, total, store,
                 dirUploads, contentIssued, deletes, rmErr, storePre>>

FileUpload ==
  /\ pc = "file_upload"
  /\ contentIssued' = TRUE
  /\ \/ /\ store' = Put(store, ContentKey(name), [kind |-> "content", meta |-> FileMeta(st), prior |-> FALSE, from |-> st])
        /\ IF hns THEN pc' = "file_setacl" /\ UNCHANGED <<ret, errLog>>
                  ELSE pc' = "archived" /\ ret' = [n |-> total, err |-> "nil"]
                       /\ UNCHANGED errLog
     \/ Fail("content_upload") /\ UNCHANGED store
  /\ UNCHANGED <<name, prefix, hns, parents, i, uPath, dirPath, st, total,
                 dirUploads, deletes, rmErr, storePre>>

\* `return total, err` after the best-effort SetAccessControl
FileSetAcl ==
  /\ pc = "file_setacl"
  /\ pc' = "archived"
  /\ \/ ret' = [n |-> total, err |-> "nil"] /\ UNCHANGED errLog
     \/ ret' = [n |-> total, err |-> "file_setacl"] /\ errLog' = Append(errLog, "file_setacl")
  /\ UNCHANGED <<name, prefix, hns, parents, i, uPath, dirPath, st, total, store,
                 dirUploads, contentIssued, deletes, rmErr, storePre>>

\* Remove with the same account/container/prefix/name
Remove ==
  /\ pc = "archived"
  /\ pc' = "done"
  /\ storePre' = store
  /\ LET k == RemoveKey(prefix, name) IN
       /\ deletes' = Append(deletes, [key |-> k, snapshots |-> "include"])
       /\ \/ /\ k \in DOMAIN store
             /\ store' = Del(store, k) /\ rmErr' = "nil"
          \/ /\ k \in DOMAIN store
             /\ rmErr' = "transient" /\ UNCHANGED store
          \/ /\ k \notin DOMAIN store
             /\ rmErr' = "notfound" /\ UNCHANGED store
          \/ /\ RemoveLosesSAS(prefix, name)
             /\ rmErr' = "auth" /\ UNCHANGED store
  /\ UNCHANGED <<name, prefix, hns, parents, i, uPath, dirPath, st, total,
                 dirUploads, contentIssued, ret, errLog>>

Next == DirOpen \/ DirStatStep \/ DirGetAcl \/ DirUpload \/ DirSetAcl
        \/ FileOpen \/ FileGetAcl \/ FileUpload \/ FileSetAcl \/ Remove

Spec == Init /\ [][Next]_vars

\* ================================================================ claims

IsPrefix(p, s) == Len(p) <= Len(s) /\ SubSeq(s, 1, Len(p)) = p
IsProperPrefix(p, s) == Len(p) < Len(s) /\ SubSeq(s, 1, Len(p)) = p
PrefixRoot ==
  IF prefix = <<>> THEN ContainerPath \o <<Slash>>
  ELSE ContainerPath \o <<Slash>> \o prefix \o <<Slash>>
ArchiveOK == ret.err # "none" /\ ret.err = "nil"
GenericKeys == {"Permissions", "ModTime", "Owner", "Group"}
CleanSegment(g) == g \notin {<<>>, <<".">>, <<".", ".">>}
DirErrs == {"open", "stat", "dir_acl_notfound", "dir_acl_other", "dir_upload", "dir_setacl"}

\* C1: every placeholder and the content object Archive writes lie under
\* container/E/, and Remove with the same configuration deletes exactly the
\* key container/E/name and nothing else.
PlainName(n) == \A g \in {Split(n)[j] : j \in 1..Len(Split(n))} : CleanSegment(g) /\ ~HasHash(g)

C1_UnderPrefix ==
  PlainName(name) =>
  /\ \A j \in 1..Len(dirUploads) : IsPrefix(PrefixRoot, dirUploads[j])
  /\ contentIssued => IsPrefix(PrefixRoot, ContentKey(name))
  /\ pc = "done" => deletes = <<[key |-> PrefixRoot \o name, snapshots |-> "include"]>>

\* C2: a successful Archive followed by Remove (whose delete was not refused
\* by a transient or auth error) leaves no object at the content key.
C2_ArchiveThenRemove ==
  (PlainName(name) /\ pc = "done" /\ ArchiveOK /\ rmErr \in {"nil", "notfound"})
    => ContentKey(name) \notin DOMAIN store

\* C3 (as stated): once the content upload has started, exactly k placeholder
\* uploads were issued for a name with k separators, each key a proper prefix
\* of the next.
C3_OrderedPlaceholders ==
  contentIssued =>
    /\ Len(dirUploads) = Len(Split(name)) - 1
    /\ \A j \in 1..(Len(dirUploads) - 1) : IsProperPrefix(dirUploads[j], dirUploads[j + 1])

\* C3 (amended): for a name whose ancestor segments are all non-empty and not
\* "." or "..", once the content upload has started exactly k placeholder
\* uploads were issued, in strictly increasing prefix order, and all of them
\* were committed before the content upload began.
C3_OrderedPlaceholdersClean ==
  (contentIssued /\ \A j \in 1..Len(parents) : CleanSegment(parents[j])) =>
    /\ Len(dirUploads) = Len(Split(name)) - 1
    /\ \A j \in 1..(Len(dirUploads) - 1) : IsProperPrefix(dirUploads[j], dirUploads[j + 1])
    /\ pc # "done" =>
         \A j \in 1..Len(dirUploads) :
           dirUploads[j] \in DOMAIN store /\ store[dirUploads[j]].kind = "placeholder"

C3_Witness ==
  /\ contentIssued /\ pc # "done" /\ hns
  /\ Len(dirUploads) = 2
  /\ \A j \in 1..Len(parents) : CleanSegment(parents[j])

\* C4: in HNS mode, a failed SetAccessControl after a successful content
\* upload is only logged: Archive returns the byte count and no error.
C4_AclSetBestEffort ==
  (ret.err # "none" /\ errLog # <<>> /\ errLog[Len(errLog)] = "file_setacl")
    => ret = [n |-> total, err |-> "nil"]

\* C5: a NotFound answer from the ACL pre-fetch (ancestor or file) never
\* aborts Archive.
C5_NotFoundTolerated ==
  ret.err # "none" => ret.err \notin {"dir_acl_notfound", "file_acl_notfound"}

\* C6: any failure while replicating an ancestor directory aborts Archive at
\* once with (0, err): no further ancestor is uploaded, no content upload is
\* started, and every placeholder already committed (including the current
\* one when only its ACL set failed) stays in the store.
C6_DirFailureAborts ==
  (\E j \in 1..Len(errLog) : errLog[j] \in DirErrs) =>
    /\ ret.err # "none" /\ ret.err \in DirErrs /\ ret.n = 0
    /\ ~contentIssued
    /\ Len(dirUploads) <= i
    /\ pc = "archived" =>
         \A j \in 1..Len(dirUploads) :
           (j < i \/ ret.err = "dir_setacl") =>
             dirUploads[j] \in DOMAIN store /\ store[dirUploads[j]].kind = "placeholder"

C6_Witness ==
  /\ pc = "archived" /\ ret.err # "none" /\ ret.err = "dir_setacl"
  /\ i = 2 /\ Len(dirUploads) = 2

\* C7: a filesystem entry that cannot be opened or stat-ed makes Archive
\* return an error; Archive never crashes.
C7_NoCrash == pc # "panicked"

\* C8: flat-mode content carries exactly Permissions/ModTime/Owner/Group from
\* the file's stat; every placeholder carries hdi_isfolder="true" plus, in flat
\* mode only, the four keys from its directory's stat; hdi_isfolder never
\* appears on content.
StatMeta(m, s) ==
  /\ m["Permissions"] = ModeOctal(s.mode)
  /\ m["ModTime"] = FormatTime(s.mtime)
  /\ m["Owner"] = Decimal(s.uid)
  /\ m["Group"] = Decimal(s.gid)

C8_Metadata ==
  \A k \in DOMAIN store :
    LET r == store[k] IN
    ~r.prior =>
      IF r.kind = "content"
        THEN /\ "hdi_isfolder" \notin DOMAIN r.meta
             /\ ~hns => (DOMAIN r.meta = GenericKeys /\ StatMeta(r.meta, r.from))
        ELSE /\ "hdi_isfolder" \in DOMAIN r.meta /\ r.meta["hdi_isfolder"] = <<"true">>
             /\ hns => DOMAIN r.meta = {"hdi_isfolder"}
             /\ ~hns => (DOMAIN r.meta = GenericKeys \cup {"hdi_isfolder"}
                         /\ StatMeta(r.meta, r.from))

C8_Witness ==
  /\ ArchiveOK /\ ~hns /\ pc = "archived"
  /\ Len(dirUploads) >= 1
  /\ ContentKey(name) \in DOMAIN store

\* C9: Remove issues exactly one delete, with snapshots included, at
\* container/prefix/name, returns its error, and touches no other object.
C9_SingleDelete ==
  pc = "done" =>
    LET k == <<Slash>> \o RemoveBlobPath(prefix, name) IN
    /\ deletes = <<[key |-> k, snapshots |-> "include"]>>
    /\ \A x \in DOMAIN storePre \ {k} : x \in DOMAIN store /\ store[x] = storePre[x]
    /\ k \notin DOMAIN storePre => rmErr # "nil"

\* C10: Archive returns (size, nil) on success and a zero byte count with
\* every error.
C10_ResultContract ==
  ret.err # "none" =>
    /\ ret.err = "nil" => ret.n = total
    /\ ret.err # "nil" => ret.n = 0

====
